---- MODULE Spec2Model ----
(***************************************************************************)
(* Model of cloud-nuke's config package: the loader GetConfig, which reads *)
(* a YAML file and compiles its names_regex patterns into a Config, and    *)
(* the filter ShouldInclude, which decides from a category's compiled      *)
(* include and exclude patterns whether a resource name is acted upon.     *)
(*                                                                         *)
(* The sources hold two revisions of the loader. The current one            *)
(* (config/config.go) unmarshals into RawConfig and then compiles the four *)
(* raw lists in a fixed order: GetConfig, specification Spec. The earlier   *)
(* one unmarshals straight into a Config of Expression values, compiling    *)
(* each pattern in UnmarshalText while the document is decoded:             *)
(* GetConfigExpression, specification SpecExpression. The two declare the   *)
(* same names and cannot be built into one package; a program has one.      *)
(*                                                                         *)
(* Text is modelled as sequences of one-character strings: the name "ab"   *)
(* is <<"a","b">>, the pattern "^a" is <<"^","a">>.                        *)
(***************************************************************************)
EXTENDS Integers, Sequences, FiniteSets, TLC

\* ------------------------------------------------------------------ bounds
MaxNameLen == 2        \* longest resource name handed to ShouldInclude
MaxPatterns == 2       \* longest include / exclude list handed to ShouldInclude
MaxFilePatterns == 2   \* most patterns a configuration file holds in total
MaxLoads == 2          \* most GetConfig calls in one behaviour
MaxTextCalls == 1      \* most UnmarshalText calls a caller makes itself

\* ------------------------------------------------------- regular expressions
\* The characters resource names are written in.
NameChars == {"a", "b"}

\* Every name of at most MaxNameLen characters.
Names == UNION {[1..k -> NameChars] : k \in 0..MaxNameLen}

\* regexp.Compile's parser, restricted to literals, the anchors ^ and $ and
\* groups: depth of open groups after reading toks[i..]; -1 once a ")" closes
\* nothing.
RECURSIVE parenDepth(_, _, _)
parenDepth(toks, i, depth) ==
    IF i > Len(toks) THEN depth
    ELSE IF toks[i] = "(" THEN parenDepth(toks, i + 1, depth + 1)
    ELSE IF toks[i] = ")" THEN
        IF depth = 0 THEN -1 ELSE parenDepth(toks, i + 1, depth - 1)
    ELSE parenDepth(toks, i + 1, depth)

\* The instruction one pattern character compiles to.
instOf(tok) ==
    IF tok = "^" THEN [op |-> "bol"]
    ELSE IF tok = "$" THEN [op |-> "eol"]
    ELSE IF tok \in {"(", ")"} THEN [op |-> "cap"]
    ELSE [op |-> "rune", r |-> tok]

\* regexp.Compile(pattern): a compiled program and a nil error, or no program
\* and a syntax error naming the pattern ("missing closing )", "unexpected )").
Compile(pattern) ==
    IF parenDepth(pattern, 1, 0) = 0
    THEN [re |-> [expr |-> pattern,
                  prog |-> [i \in 1..Len(pattern) |-> instOf(pattern[i])]],
          err |-> [kind |-> "nil"]]
    ELSE [re |-> [expr |-> <<>>, prog |-> <<>>],
          err |-> [kind |-> "PatternError", expr |-> pattern]]

\* One thread of the matcher: does prog[pc..] match name from offset pos on.
RECURSIVE runFrom(_, _, _, _)
runFrom(prog, pc, name, pos) ==
    IF pc > Len(prog) THEN TRUE
    ELSE IF prog[pc].op = "bol" THEN pos = 0 /\ runFrom(prog, pc + 1, name, pos)
    ELSE IF prog[pc].op = "eol" THEN
        pos = Len(name) /\ runFrom(prog, pc + 1, name, pos)
    ELSE IF prog[pc].op = "cap" THEN runFrom(prog, pc + 1, name, pos)
    ELSE /\ pos < Len(name)
         /\ name[pos + 1] = prog[pc].r
         /\ runFrom(prog, pc + 1, name, pos + 1)

\* re.MatchString(name): unanchored search, a match may start at any offset.
MatchString(re, name) ==
    \E start \in 0..Len(name) : runFrom(re.prog, 1, name, start)

\* ------------------------------------------------------------------ filter
\* Mutant of matchesInclude: the loop returns after its first iteration, so
\* only the first include pattern is tried.
matchesIncludeFirstOnly(name, includeREs) ==
    IF includeREs = <<>> THEN FALSE
    ELSE MatchString(Head(includeREs), name)

\* matchesInclude: true at the first include pattern that matches.
RECURSIVE matchesInclude(_, _)
matchesInclude(name, includeREs) ==
    IF includeREs = <<>> THEN FALSE
    ELSE IF MatchString(Head(includeREs), name) THEN TRUE
    ELSE matchesInclude(name, Tail(includeREs))

\* Mutant of matchesExclude: the loop returns after its first iteration, so
\* only the first exclude pattern is tried.
matchesExcludeFirstOnly(name, excludeREs) ==
    IF excludeREs = <<>> THEN TRUE
    ELSE ~MatchString(Head(excludeREs), name)

\* matchesExclude: false at the first exclude pattern that matches, true when
\* none does.
RECURSIVE matchesExclude(_, _)
matchesExclude(name, excludeREs) ==
    IF excludeREs = <<>> THEN TRUE
    ELSE IF MatchString(Head(excludeREs), name) THEN FALSE
    ELSE matchesExclude(name, Tail(excludeREs))

\* Mutant of ShouldIncludeRun: a name that matches no include pattern falls
\* through to the exclude-only branch.
ShouldIncludeRunFallThrough(name, includeREs, excludeNamesREs) ==
    IF Len(includeREs) > 0 /\ matchesInclude(name, includeREs)
    THEN [shouldInclude |-> matchesExclude(name, excludeNamesREs),
          excludeChecked |-> TRUE]
    ELSE IF Len(excludeNamesREs) > 0
    THEN [shouldInclude |-> matchesExclude(name, excludeNamesREs),
          excludeChecked |-> TRUE]
    ELSE [shouldInclude |-> Len(includeREs) = 0, excludeChecked |-> FALSE]

\* Mutant of ShouldIncludeRun: the exclude-only branch is entered on the
\* include list's length, so an empty include list always takes the last
\* branch.
ShouldIncludeRunWrongLen(name, includeREs, excludeNamesREs) ==
    IF Len(includeREs) > 0 THEN
        IF matchesInclude(name, includeREs)
        THEN [shouldInclude |-> matchesExclude(name, excludeNamesREs),
              excludeChecked |-> TRUE]
        ELSE [shouldInclude |-> FALSE, excludeChecked |-> FALSE]
    ELSE [shouldInclude |-> TRUE, excludeChecked |-> FALSE]

\* Mutant of ShouldIncludeRun: the final else is missing, so shouldInclude
\* keeps its initial false when both lists are empty.
ShouldIncludeRunNoDefault(name, includeREs, excludeNamesREs) ==
    IF Len(includeREs) > 0 THEN
        IF matchesInclude(name, includeREs)
        THEN [shouldInclude |-> matchesExclude(name, excludeNamesREs),
              excludeChecked |-> TRUE]
        ELSE [shouldInclude |-> FALSE, excludeChecked |-> FALSE]
    ELSE IF Len(excludeNamesREs) > 0
    THEN [shouldInclude |-> matchesExclude(name, excludeNamesREs),
          excludeChecked |-> TRUE]
    ELSE [shouldInclude |-> FALSE, excludeChecked |-> FALSE]

\* ShouldInclude's body: the decision, and whether the exclude list was
\* handed to matchesExclude on the way.
ShouldIncludeRun(name, includeREs, excludeNamesREs) ==
    IF Len(includeREs) > 0 THEN
        IF matchesInclude(name, includeREs)
        THEN [shouldInclude |-> matchesExclude(name, excludeNamesREs),
              excludeChecked |-> TRUE]
        ELSE [shouldInclude |-> FALSE, excludeChecked |-> FALSE]
    ELSE IF Len(excludeNamesREs) > 0
    THEN [shouldInclude |-> matchesExclude(name, excludeNamesREs),
          excludeChecked |-> TRUE]
    ELSE [shouldInclude |-> TRUE, excludeChecked |-> FALSE]

\* ShouldInclude: the inclusion decision.
ShouldInclude(name, includeREs, excludeNamesREs) ==
    ShouldIncludeRun(name, includeREs, excludeNamesREs).shouldInclude

\* ------------------------------------------------------------------ loader
\* A nil error.
Nil == [kind |-> "nil"]

\* A YAML mapping with no keys.
EmptyMap == [k \in {} |-> <<>>]

\* The working directory relative paths are resolved against.
Cwd == <<"cfg">>

\* The one file on disk.
ConfigPath == [abs |-> TRUE, elems |-> <<"cfg", "config.yaml">>]

\* filepath.Abs(filePath): an absolute path is returned as it is, a relative
\* one is joined to the working directory. (It fails only when the process
\* cannot determine its working directory, which no input decides; the model
\* keeps the working directory known.)
Abs(filePath) ==
    IF filePath.abs THEN [path |-> filePath, err |-> Nil]
    ELSE [path |-> [abs |-> TRUE, elems |-> Cwd \o filePath.elems], err |-> Nil]

\* ioutil.ReadFile(absolutePath) on a disk holding file at ConfigPath.
ReadFile(absolutePath, file) ==
    IF absolutePath = ConfigPath THEN [data |-> file, err |-> Nil]
    ELSE [data |-> [valid |-> FALSE, doc |-> EmptyMap, mistyped |-> {}],
          err |-> [kind |-> "IOError"]]

\* Mutant of rawNamesRE: an omitted list is read as a list of one empty
\* string.
rawNamesREOneEmpty(doc, category, rule) ==
    IF /\ category \in DOMAIN doc
       /\ rule \in DOMAIN doc[category]
       /\ "names_regex" \in DOMAIN doc[category][rule]
    THEN doc[category][rule].names_regex
    ELSE << <<>> >>

\* The names_regex list of one rule of one category as yaml.Unmarshal leaves
\* it in RawConfig: the document's list, or the zero value (no strings) when
\* the category, the rule or the key is not in the document.
rawNamesRE(doc, category, rule) ==
    IF /\ category \in DOMAIN doc
       /\ rule \in DOMAIN doc[category]
       /\ "names_regex" \in DOMAIN doc[category][rule]
    THEN doc[category][rule].names_regex
    ELSE <<>>

\* rawResourceType, filled from the document's mapping under the given key.
rawResourceType(doc, category) ==
    [IncludeRule |-> [NamesRE |-> rawNamesRE(doc, category, "include")],
     ExcludeRule |-> [NamesRE |-> rawNamesRE(doc, category, "exclude")]]

\* yaml.Unmarshal(yamlFile, &rawConfig). Bytes that are no YAML document
\* give an error and decode nothing. A document is decoded key by key; a key
\* whose value has the wrong type (file.mistyped: a number where a mapping is
\* expected) leaves its field at the zero value, the other keys are decoded
\* all the same, and the call returns a type error at the end.
Unmarshal(file) ==
    IF file.valid
    THEN [rawConfig |-> [S3 |-> rawResourceType(file.doc, "s3"),
                         IAMUsers |-> rawResourceType(file.doc, "IAMUsers")],
          err |-> IF file.mistyped # {} THEN [kind |-> "ParseError"] ELSE Nil]
    ELSE [rawConfig |-> [S3 |-> rawResourceType(EmptyMap, "s3"),
                         IAMUsers |-> rawResourceType(EmptyMap, "IAMUsers")],
          err |-> [kind |-> "ParseError"]]

\* The zero Config: no pattern in any rule.
ZeroConfig ==
    [S3 |-> [IncludeRule |-> [NamesRE |-> <<>>],
             ExcludeRule |-> [NamesRE |-> <<>>]],
     IAMUsers |-> [IncludeRule |-> [NamesRE |-> <<>>],
                   ExcludeRule |-> [NamesRE |-> <<>>]]]

\* Mutant of newConfigObj: configObj is one package-level object, which every
\* call after the first finds as the call before left it.
newConfigObjShared(objects) ==
    IF objects = <<>> THEN [addr |-> 1, obj |-> ZeroConfig]
    ELSE [addr |-> 1, obj |-> objects[1]]

\* var configObj Config: a call's own object, at an address no earlier call
\* used, holding the zero Config.
newConfigObj(objects) == [addr |-> Len(objects) + 1, obj |-> ZeroConfig]

\* Mutant of appendRegex: a pattern that does not compile is skipped and the
\* call returns nil.
RECURSIVE appendRegexSwallow(_, _)
appendRegexSwallow(configNamesRE, patterns) ==
    IF patterns = <<>>
    THEN [NamesRE |-> configNamesRE, err |-> Nil, compiled |-> <<>>]
    ELSE LET c == Compile(Head(patterns))
             rest == appendRegexSwallow(
                         IF c.err.kind # "nil" THEN configNamesRE
                         ELSE Append(configNamesRE, c.re),
                         Tail(patterns))
         IN  [NamesRE |-> rest.NamesRE, err |-> Nil,
              compiled |-> <<Head(patterns)>> \o rest.compiled]

\* Mutant of appendRegex: the loop goes on after a pattern that does not
\* compile and the call returns the last error met.
RECURSIVE appendRegexLastErr(_, _)
appendRegexLastErr(configNamesRE, patterns) ==
    IF patterns = <<>>
    THEN [NamesRE |-> configNamesRE, err |-> Nil, compiled |-> <<>>]
    ELSE LET c == Compile(Head(patterns))
             rest == appendRegexLastErr(
                         IF c.err.kind # "nil" THEN configNamesRE
                         ELSE Append(configNamesRE, c.re),
                         Tail(patterns))
         IN  [NamesRE |-> rest.NamesRE,
              err |-> IF rest.err.kind # "nil" THEN rest.err ELSE c.err,
              compiled |-> <<Head(patterns)>> \o rest.compiled]

\* appendRegex: compiles the patterns in order and appends each compiled
\* pattern to the list, returning at the first pattern that does not compile.
\* NamesRE is the list as the call leaves it, compiled the patterns that were
\* handed to regexp.Compile.
RECURSIVE appendRegex(_, _)
appendRegex(configNamesRE, patterns) ==
    IF patterns = <<>>
    THEN [NamesRE |-> configNamesRE, err |-> Nil, compiled |-> <<>>]
    ELSE LET c == Compile(Head(patterns))
         IN  IF c.err.kind # "nil"
             THEN [NamesRE |-> configNamesRE, err |-> c.err,
                   compiled |-> <<Head(patterns)>>]
             ELSE LET rest == appendRegex(Append(configNamesRE, c.re),
                                          Tail(patterns))
                  IN  [NamesRE |-> rest.NamesRE, err |-> rest.err,
                       compiled |-> <<Head(patterns)>> \o rest.compiled]

\* Mutant of associations: the third pair names the S3 exclude list as its
\* destination.
associationsWrongSlot(rawConfig) ==
    << [CompiledREs |-> <<"S3", "IncludeRule">>,
        RawREs |-> rawConfig.S3.IncludeRule.NamesRE],
       [CompiledREs |-> <<"S3", "ExcludeRule">>,
        RawREs |-> rawConfig.S3.ExcludeRule.NamesRE],
       [CompiledREs |-> <<"S3", "ExcludeRule">>,
        RawREs |-> rawConfig.IAMUsers.IncludeRule.NamesRE],
       [CompiledREs |-> <<"IAMUsers", "ExcludeRule">>,
        RawREs |-> rawConfig.IAMUsers.ExcludeRule.NamesRE] >>

\* The pairs of a compiled destination (category and rule of configObj) and
\* its raw source list, in the order GetConfig compiles them.
associations(rawConfig) ==
    << [CompiledREs |-> <<"S3", "IncludeRule">>,
        RawREs |-> rawConfig.S3.IncludeRule.NamesRE],
       [CompiledREs |-> <<"S3", "ExcludeRule">>,
        RawREs |-> rawConfig.S3.ExcludeRule.NamesRE],
       [CompiledREs |-> <<"IAMUsers", "IncludeRule">>,
        RawREs |-> rawConfig.IAMUsers.IncludeRule.NamesRE],
       [CompiledREs |-> <<"IAMUsers", "ExcludeRule">>,
        RawREs |-> rawConfig.IAMUsers.ExcludeRule.NamesRE] >>

\* The list a CompiledREs pointer designates, and the object after a write
\* through the pointer.
deref(configObj, ptr) == configObj[ptr[1]][ptr[2]].NamesRE
assign(configObj, ptr, res) ==
    [configObj EXCEPT ![ptr[1]][ptr[2]].NamesRE = res]

\* GetConfig's loop over the associations from the i-th on: appendRegex on
\* each, returning at the first error.
RECURSIVE compileFrom(_, _, _)
compileFrom(configObj, assocs, i) ==
    IF i > Len(assocs)
    THEN [configObj |-> configObj, err |-> Nil, compiled |-> <<>>]
    ELSE LET a == assocs[i]
             r == appendRegex(deref(configObj, a.CompiledREs), a.RawREs)
             obj == assign(configObj, a.CompiledREs, r.NamesRE)
         IN  IF r.err.kind # "nil"
             THEN [configObj |-> obj, err |-> r.err, compiled |-> r.compiled]
             ELSE LET rest == compileFrom(obj, assocs, i + 1)
                  IN  [configObj |-> rest.configObj, err |-> rest.err,
                       compiled |-> r.compiled \o rest.compiled]

\* GetConfig(filePath) with file on disk and objects allocated so far: config
\* is the returned pointer (0 is nil), err the returned error, addr and
\* configObj the call's own object and what it holds when the call returns.
GetConfigRun(filePath, file, objects) ==
    LET new == newConfigObj(objects)
        absolutePath == Abs(filePath)
        yamlRead == ReadFile(absolutePath.path, file)
        raw == Unmarshal(yamlRead.data)
        done == compileFrom(new.obj, associations(raw.rawConfig), 1)
        fail(e) == [config |-> 0, err |-> e, addr |-> new.addr,
                    configObj |-> new.obj, compiled |-> <<>>]
    IN  IF absolutePath.err.kind # "nil" THEN fail(absolutePath.err)
        ELSE IF yamlRead.err.kind # "nil" THEN fail(yamlRead.err)
        ELSE IF raw.err.kind # "nil" THEN fail(raw.err)
        ELSE IF done.err.kind # "nil"
        THEN [config |-> 0, err |-> done.err, addr |-> new.addr,
              configObj |-> done.configObj, compiled |-> done.compiled]
        ELSE [config |-> new.addr, err |-> Nil, addr |-> new.addr,
              configObj |-> done.configObj, compiled |-> done.compiled]

\* ------------------------------------- loader, revision with Expression
\* The Config field a yaml key is tagged on.
fieldOf(key) ==
    IF key = "s3" THEN "S3"
    ELSE IF key = "include" THEN "IncludeRule"
    ELSE IF key = "exclude" THEN "ExcludeRule"
    ELSE key

\* The zero Expression: a regexp.Regexp nothing was compiled into.
ZeroExpression == [RE |-> [expr |-> <<>>, prog |-> <<>>]]

\* yaml.Unmarshal(data, &pattern) in UnmarshalText: the text of a scalar read
\* again as a document holding one string. Texts made of letters, anchors
\* and parentheses are plain scalars and read as themselves.
scalarText(data) == [pattern |-> data, err |-> Nil]

\* (*Expression).UnmarshalText: the expression after the call and the error
\* returned; the expression is written only when the pattern compiles.
UnmarshalText(expression, data) ==
    LET text == scalarText(data)
        c == Compile(text.pattern)
    IN  IF text.err.kind # "nil" THEN [expression |-> expression, err |-> text.err]
        ELSE IF c.err.kind # "nil" THEN [expression |-> expression, err |-> c.err]
        ELSE [expression |-> [RE |-> c.re], err |-> Nil]

\* yaml.Unmarshal decoding a names_regex list into a []Expression: the slice
\* is made with one zero Expression per item, then each item is decoded by
\* UnmarshalText into its place, from the i-th on; the first error ends the
\* decoding. compiled are the texts handed to regexp.Compile.
RECURSIVE decodeItems(_, _, _)
decodeItems(out, list, i) ==
    IF i > Len(list) THEN [NamesRE |-> out, err |-> Nil, compiled |-> <<>>]
    ELSE LET u == UnmarshalText(ZeroExpression, list[i])
         IN  IF u.err.kind # "nil"
             THEN [NamesRE |-> out, err |-> u.err, compiled |-> <<list[i]>>]
             ELSE LET rest == decodeItems([out EXCEPT ![i] = u.expression],
                                          list, i + 1)
                  IN  [NamesRE |-> rest.NamesRE, err |-> rest.err,
                       compiled |-> <<list[i]>> \o rest.compiled]

\* yaml.Unmarshal decoding the include / exclude mappings of one category
\* into configObj, the keys in the order the document writes them (rules),
\* from the i-th on.
RECURSIVE decodeRules(_, _, _, _, _)
decodeRules(configObj, doc, category, rules, i) ==
    IF i > Len(rules)
    THEN [configObj |-> configObj, err |-> Nil, compiled |-> <<>>]
    ELSE IF ~(/\ rules[i] \in DOMAIN doc[category]
              /\ "names_regex" \in DOMAIN doc[category][rules[i]])
    THEN decodeRules(configObj, doc, category, rules, i + 1)
    ELSE LET list == doc[category][rules[i]].names_regex
             r == decodeItems([k \in 1..Len(list) |-> ZeroExpression], list, 1)
             obj == [configObj EXCEPT
                        ![fieldOf(category)][fieldOf(rules[i])].NamesRE =
                            r.NamesRE]
         IN  IF r.err.kind # "nil"
             THEN [configObj |-> obj, err |-> r.err, compiled |-> r.compiled]
             ELSE LET rest == decodeRules(obj, doc, category, rules, i + 1)
                  IN  [configObj |-> rest.configObj, err |-> rest.err,
                       compiled |-> r.compiled \o rest.compiled]

\* yaml.Unmarshal decoding the category mappings into configObj, the keys in
\* the order the document writes them (order.categories), from the i-th on.
RECURSIVE decodeCategories(_, _, _, _)
decodeCategories(configObj, doc, order, i) ==
    IF i > Len(order.categories)
    THEN [configObj |-> configObj, err |-> Nil, compiled |-> <<>>]
    ELSE LET category == order.categories[i]
         IN  IF category \notin DOMAIN doc
             THEN decodeCategories(configObj, doc, order, i + 1)
             ELSE LET r == decodeRules(configObj, doc, category,
                                       order[category], 1)
                  IN  IF r.err.kind # "nil" THEN r
                      ELSE LET rest == decodeCategories(r.configObj, doc,
                                                        order, i + 1)
                           IN  [configObj |-> rest.configObj,
                                err |-> rest.err,
                                compiled |-> r.compiled \o rest.compiled]

\* yaml.Unmarshal(yamlFile, &configObj). Bytes that are no YAML document
\* give an error and decode nothing. A document is decoded key by key into
\* configObj; an error of UnmarshalText ends the decoding at once and is the
\* error returned; a key whose value has the wrong type (file.mistyped) is
\* passed over, whatever its place in the document, and once every other key
\* is decoded the call returns a type error.
UnmarshalConfig(configObj, file, order) ==
    IF file.valid
    THEN LET r == decodeCategories(configObj, file.doc, order, 1)
         IN  IF r.err.kind = "nil" /\ file.mistyped # {}
             THEN [configObj |-> r.configObj, err |-> [kind |-> "ParseError"],
                   compiled |-> r.compiled]
             ELSE r
    ELSE [configObj |-> configObj, err |-> [kind |-> "ParseError"],
          compiled |-> <<>>]

\* GetConfig(filePath) of this revision, with file on disk written in the
\* given key order; the fields are those of GetConfigRun.
GetConfigExpressionRun(filePath, file, order, objects) ==
    LET new == newConfigObj(objects)
        absolutePath == Abs(filePath)
        yamlRead == ReadFile(absolutePath.path, file)
        done == UnmarshalConfig(new.obj, yamlRead.data, order)
        fail(e) == [config |-> 0, err |-> e, addr |-> new.addr,
                    configObj |-> new.obj, compiled |-> <<>>]
    IN  IF absolutePath.err.kind # "nil" THEN fail(absolutePath.err)
        ELSE IF yamlRead.err.kind # "nil" THEN fail(yamlRead.err)
        ELSE IF done.err.kind # "nil"
        THEN [config |-> 0, err |-> done.err, addr |-> new.addr,
              configObj |-> done.configObj, compiled |-> done.compiled]
        ELSE [config |-> new.addr, err |-> Nil, addr |-> new.addr,
              configObj |-> done.configObj, compiled |-> done.compiled]

\* ------------------------------------------------------------------- state
VARIABLES
    yamlFile,         \* what the file at ConfigPath holds
    keyOrder,         \* the order in which that file writes its keys
    textCalls,        \* the UnmarshalText calls a caller made itself
    objects,          \* the Config objects allocated so far, by address
    loads,            \* the GetConfig calls that returned, in order
    name,             \* ShouldInclude's argument: the resource name
    includeREs,       \* ShouldInclude's argument: compiled include patterns
    excludeNamesREs,  \* ShouldInclude's argument: compiled exclude patterns
    called,           \* has ShouldInclude returned
    shouldInclude,    \* the boolean ShouldInclude returned
    excludeChecked    \* did that call hand the exclude list to matchesExclude

loaderVars == <<yamlFile, keyOrder, textCalls, objects, loads>>

filterVars == <<name, includeREs, excludeNamesREs, called, shouldInclude,
                excludeChecked>>

vars == <<yamlFile, keyOrder, textCalls, objects, loads, name, includeREs,
          excludeNamesREs, called, shouldInclude, excludeChecked>>

\* ----------------------------------------------- specification of the loader
\* The pattern texts configuration files are written with: two that compile
\* and two that do not (an unclosed group, an unopened one).
FilePatterns == {<<"^", "a">>, <<"b", "$">>, <<"(">>, <<"a", ")">>}

\* The include / exclude mappings holding exactly n patterns: without the
\* names_regex key (n = 0) or with a list of n patterns.
SectionsWith(n) ==
    {[names_regex |-> l] : l \in [1..n -> FilePatterns]}
        \cup (IF n = 0 THEN {EmptyMap} ELSE {})

\* The category mappings holding exactly n patterns, with either, both or
\* none of the include and exclude keys.
CategoriesWith(n) ==
    {[include |-> s] : s \in SectionsWith(n)}
        \cup {[exclude |-> s] : s \in SectionsWith(n)}
        \cup UNION {{[include |-> s, exclude |-> t] :
                        s \in SectionsWith(k), t \in SectionsWith(n - k)} :
                    k \in 0..n}
        \cup (IF n = 0 THEN {EmptyMap} ELSE {})

\* The documents holding exactly n patterns, with either, both or none of the
\* category keys.
DocsWith(n) ==
    {[s3 |-> c] : c \in CategoriesWith(n)}
        \cup {[IAMUsers |-> c] : c \in CategoriesWith(n)}
        \cup UNION {{[s3 |-> c, IAMUsers |-> d] :
                        c \in CategoriesWith(k), d \in CategoriesWith(n - k)} :
                    k \in 0..n}
        \cup (IF n = 0 THEN {EmptyMap} ELSE {})

\* The category keys a document that does not write them as mappings may
\* write with a value of the wrong type (s3: 3).
MistypedIn(doc) == SUBSET ({"s3", "IAMUsers"} \ DOMAIN doc)

\* The files: every document of at most MaxFilePatterns patterns, with or
\* without mistyped category keys, and a file that is no YAML document.
Files ==
    {[valid |-> TRUE, doc |-> f[1], mistyped |-> f[2]] :
        f \in UNION {{<<d, m>> : m \in MistypedIn(d)} :
                        d \in UNION {DocsWith(n) : n \in 0..MaxFilePatterns}}}
        \cup {[valid |-> FALSE, doc |-> EmptyMap, mistyped |-> {}]}

\* The paths GetConfig is called with: the file by a relative and by an
\* absolute path, and a path with no file.
FilePaths ==
    {[abs |-> FALSE, elems |-> <<"config.yaml">>],
     ConfigPath,
     [abs |-> TRUE, elems |-> <<"cfg", "missing.yaml">>]}

\* The orders a document writes its keys in: either category first and, in
\* each category, either rule first.
KeyOrders ==
    {[categories |-> cs, s3 |-> r1, IAMUsers |-> r2] :
        cs \in {<<"s3", "IAMUsers">>, <<"IAMUsers", "s3">>},
        r1 \in {<<"include", "exclude">>, <<"exclude", "include">>},
        r2 \in {<<"include", "exclude">>, <<"exclude", "include">>}}

\* The order of the fields of Config.
FieldOrder ==
    [categories |-> <<"s3", "IAMUsers">>, s3 |-> <<"include", "exclude">>,
     IAMUsers |-> <<"include", "exclude">>]

\* Unmarshalling into RawConfig fills each field from the key tagged on it,
\* wherever the document writes the key: GetConfig reads no key order, and
\* the documents of Spec are written in the order of the fields.
Init ==
    /\ yamlFile \in Files
    /\ keyOrder = FieldOrder
    /\ textCalls = <<>>
    /\ objects = <<>>
    /\ loads = <<>>
    /\ name = <<>>
    /\ includeREs = <<>>
    /\ excludeNamesREs = <<>>
    /\ called = FALSE
    /\ shouldInclude = FALSE
    /\ excludeChecked = FALSE

\* A caller invokes GetConfig(filePath).
GetConfig(filePath) ==
    /\ Len(loads) < MaxLoads
    /\ LET r == GetConfigRun(filePath, yamlFile, objects)
       IN  /\ objects' = IF r.addr > Len(objects)
                         THEN Append(objects, r.configObj)
                         ELSE [objects EXCEPT ![r.addr] = r.configObj]
           /\ loads' = Append(loads, [config |-> r.config,
                                      err |-> r.err,
                                      addr |-> r.addr,
                                      compiled |-> r.compiled])
    /\ UNCHANGED <<yamlFile, keyOrder, textCalls>>
    /\ UNCHANGED filterVars

Next == \E filePath \in FilePaths : GetConfig(filePath)

Spec == Init /\ [][Next]_vars

\* ------------------------- specification of the loader, Expression revision
InitExpression ==
    /\ yamlFile \in Files
    /\ keyOrder \in KeyOrders
    /\ textCalls = <<>>
    /\ objects = <<>>
    /\ loads = <<>>
    /\ name = <<>>
    /\ includeREs = <<>>
    /\ excludeNamesREs = <<>>
    /\ called = FALSE
    /\ shouldInclude = FALSE
    /\ excludeChecked = FALSE

\* A caller invokes this revision's GetConfig(filePath).
GetConfigExpression(filePath) ==
    /\ Len(loads) < MaxLoads
    /\ LET r == GetConfigExpressionRun(filePath, yamlFile, keyOrder, objects)
       IN  /\ objects' = IF r.addr > Len(objects)
                         THEN Append(objects, r.configObj)
                         ELSE [objects EXCEPT ![r.addr] = r.configObj]
           /\ loads' = Append(loads, [config |-> r.config,
                                      err |-> r.err,
                                      addr |-> r.addr,
                                      compiled |-> r.compiled])
    /\ UNCHANGED <<yamlFile, keyOrder, textCalls>>
    /\ UNCHANGED filterVars

\* A caller invokes UnmarshalText(data) itself, on the k-th Expression of a
\* rule (field) of the Config the i-th load returned.
UnmarshalTextCall(i, field, k, data) ==
    /\ Len(textCalls) < MaxTextCalls
    /\ i \in 1..Len(loads)
    /\ loads[i].config # 0
    /\ k \in 1..Len(deref(objects[loads[i].config], field))
    /\ LET u == UnmarshalText(deref(objects[loads[i].config], field)[k], data)
       IN  /\ objects' = [objects EXCEPT
                             ![loads[i].config][field[1]][field[2]].NamesRE[k] =
                                 u.expression]
           /\ textCalls' = Append(textCalls, [config |-> loads[i].config,
                                              err |-> u.err])
    /\ UNCHANGED <<yamlFile, keyOrder, loads>>
    /\ UNCHANGED filterVars

NextExpression ==
    \/ \E filePath \in FilePaths : GetConfigExpression(filePath)
    \/ \E i \in 1..MaxLoads, category \in {"S3", "IAMUsers"},
           rule \in {"IncludeRule", "ExcludeRule"},
           k \in 1..MaxFilePatterns, data \in FilePatterns :
           UnmarshalTextCall(i, <<category, rule>>, k, data)

SpecExpression == InitExpression /\ [][NextExpression]_vars

\* ----------------------------------------------- specification of the filter
\* The pattern texts the filter's lists are compiled from: a literal in a
\* group, a pattern anchored at the start, one anchored at the end and the
\* empty pattern. All of them compile.
FilterPatterns == {<<"(", "a", ")">>, <<"^", "a">>, <<"b", "$">>, <<>>}

\* regexp.MustCompile over FilterPatterns.
FilterREs == {Compile(p).re : p \in FilterPatterns}

\* Every pattern list of at most MaxPatterns compiled patterns.
FilterLists == UNION {[1..k -> FilterREs] : k \in 0..MaxPatterns}

InitFilter ==
    /\ name \in Names
    /\ includeREs \in FilterLists
    /\ excludeNamesREs \in FilterLists
    /\ yamlFile = [valid |-> TRUE, doc |-> EmptyMap, mistyped |-> {}]
    /\ keyOrder = FieldOrder
    /\ textCalls = <<>>
    /\ objects = <<>>
    /\ loads = <<>>
    /\ called = FALSE
    /\ shouldInclude = FALSE
    /\ excludeChecked = FALSE

\* A caller invokes ShouldInclude(name, includeREs, excludeNamesREs).
ShouldIncludeCall ==
    /\ ~called
    /\ called' = TRUE
    /\ shouldInclude' = ShouldInclude(name, includeREs, excludeNamesREs)
    /\ excludeChecked' =
           ShouldIncludeRun(name, includeREs, excludeNamesREs).excludeChecked
    /\ UNCHANGED <<name, includeREs, excludeNamesREs>>
    /\ UNCHANGED loaderVars

NextFilter == ShouldIncludeCall

SpecFilter == InitFilter /\ [][NextFilter]_vars

\* ------------------------------------------------------ claims on the filter
\* name matches at least one pattern of the list.
AnyMatch(n, res) == \E i \in 1..Len(res) : MatchString(res[i], n)

\* C1: exclude overrides include. Once ShouldInclude has returned for a name
\* that matches at least one include pattern and at least one exclude
\* pattern, what it returned is false.
C1_ExcludeOverridesInclude ==
    (called /\ AnyMatch(name, includeREs) /\ AnyMatch(name, excludeNamesREs))
        => shouldInclude = FALSE

\* C1's case: a returned call whose name matches both lists, the exclude
\* list only by a pattern that is not its first.
C1_Witness ==
    /\ called
    /\ AnyMatch(name, includeREs)
    /\ Len(excludeNamesREs) = 2
    /\ ~MatchString(excludeNamesREs[1], name)
    /\ MatchString(excludeNamesREs[2], name)
    /\ shouldInclude = FALSE

\* C2: with a non-empty include list none of whose patterns matches the
\* name, ShouldInclude returns false and never hands the exclude list to
\* matchesExclude, whatever that list holds.
C2_NoIncludeMatchIsFalse ==
    (called /\ Len(includeREs) > 0 /\ ~AnyMatch(name, includeREs))
        => (shouldInclude = FALSE /\ excludeChecked = FALSE)

\* C2's case: no include pattern matches, and the exclude list is non-empty
\* and does not match either (excluding alone would have let the name in).
C2_Witness ==
    /\ called
    /\ Len(includeREs) > 0
    /\ ~AnyMatch(name, includeREs)
    /\ Len(excludeNamesREs) > 0
    /\ ~AnyMatch(name, excludeNamesREs)
    /\ shouldInclude = FALSE

\* The same with an exclude list that matches, and with an empty one.
C2_WitnessMatching ==
    /\ called
    /\ Len(includeREs) > 0
    /\ ~AnyMatch(name, includeREs)
    /\ AnyMatch(name, excludeNamesREs)

C2_WitnessEmpty ==
    /\ called
    /\ Len(includeREs) > 0
    /\ ~AnyMatch(name, includeREs)
    /\ excludeNamesREs = <<>>

\* C3: with an empty include list and a non-empty exclude list, ShouldInclude
\* returns false exactly when the name matches at least one exclude pattern.
C3_ExcludeOnly ==
    (called /\ Len(includeREs) = 0 /\ Len(excludeNamesREs) > 0)
        => ((shouldInclude = FALSE) <=> AnyMatch(name, excludeNamesREs))

\* C3's cases: an exclude-only call that returned false, and one that
\* returned true.
C3_Witness ==
    /\ called
    /\ Len(includeREs) = 0
    /\ Len(excludeNamesREs) > 0
    /\ AnyMatch(name, excludeNamesREs)
    /\ shouldInclude = FALSE

C3_WitnessAllowed ==
    /\ called
    /\ Len(includeREs) = 0
    /\ Len(excludeNamesREs) > 0
    /\ ~AnyMatch(name, excludeNamesREs)
    /\ shouldInclude = TRUE

\* C4: default allow. With both lists empty ShouldInclude returns true for
\* every name.
C4_DefaultAllow ==
    (called /\ includeREs = <<>> /\ excludeNamesREs = <<>>)
        => shouldInclude = TRUE

\* C4's case: a returned call with both lists empty and a non-empty name.
C4_Witness ==
    /\ called
    /\ includeREs = <<>>
    /\ excludeNamesREs = <<>>
    /\ Len(name) > 0
    /\ shouldInclude = TRUE

\* The reorderings of a list, and the lists that repeat one of its entries
\* at any position.
Reorderings(res) ==
    {[i \in 1..Len(res) |-> res[p[i]]] : p \in Permutations(1..Len(res))}
Duplications(res) ==
    {SubSeq(res, 1, k) \o <<res[i]>> \o SubSeq(res, k + 1, Len(res)) :
        i \in 1..Len(res), k \in 0..Len(res)}

\* C10: the decision does not depend on the order of the patterns. What
\* ShouldInclude returned is what it returns for the same name with the
\* include list, or the exclude list, reordered or with an entry repeated.
C10_OrderIndependent ==
    called =>
        /\ \A inc \in Reorderings(includeREs) \cup Duplications(includeREs) :
               ShouldInclude(name, inc, excludeNamesREs) = shouldInclude
        /\ \A exc \in Reorderings(excludeNamesREs)
                          \cup Duplications(excludeNamesREs) :
               ShouldInclude(name, includeREs, exc) = shouldInclude

\* C10's case: a returned call where the include list's first pattern does
\* not match and its second does, so the loop's stopping point moves when
\* the list is reordered; likewise for the exclude list.
C10_Witness ==
    /\ called
    /\ Len(includeREs) = 2
    /\ ~MatchString(includeREs[1], name)
    /\ MatchString(includeREs[2], name)
    /\ Len(excludeNamesREs) = 2
    /\ MatchString(excludeNamesREs[1], name)
    /\ ~MatchString(excludeNamesREs[2], name)

\* ------------------------------------------------------ claims on the loader
\* The four rule slots, as keys of the document and as fields of Config.
Slots ==
    {[key |-> <<"s3", "include">>, field |-> <<"S3", "IncludeRule">>],
     [key |-> <<"s3", "exclude">>, field |-> <<"S3", "ExcludeRule">>],
     [key |-> <<"IAMUsers", "include">>, field |-> <<"IAMUsers", "IncludeRule">>],
     [key |-> <<"IAMUsers", "exclude">>, field |-> <<"IAMUsers", "ExcludeRule">>]}

\* The document gives the slot a names_regex list.
Written(doc, slot) ==
    /\ slot.key[1] \in DOMAIN doc
    /\ slot.key[2] \in DOMAIN doc[slot.key[1]]
    /\ "names_regex" \in DOMAIN doc[slot.key[1]][slot.key[2]]

\* The pattern texts written anywhere in the document.
DocPatterns(doc) ==
    UNION {{doc[s.key[1]][s.key[2]].names_regex[i] :
               i \in 1..Len(doc[s.key[1]][s.key[2]].names_regex)} :
           s \in {t \in Slots : Written(doc, t)}}

\* The pattern text is not a regular expression.
Invalid(pattern) == Compile(pattern).err.kind # "nil"

\* The call got as far as the file's content: the file was read.
ReadTheFile(load) == load.err.kind # "IOError"

\* The raw lists of the file in GetConfig's compile order, end to end.
RawInOrder ==
    LET raw == Unmarshal(yamlFile).rawConfig
    IN  raw.S3.IncludeRule.NamesRE \o raw.S3.ExcludeRule.NamesRE
            \o raw.IAMUsers.IncludeRule.NamesRE
            \o raw.IAMUsers.ExcludeRule.NamesRE

\* The file is a document of the expected shape.
WellFormed(file) == file.valid /\ file.mistyped = {}

\* C5: all-or-nothing load. A GetConfig call that read a document in which
\* some pattern of some slot does not compile returned a non-nil error and a
\* nil Config, the error being the pattern's when the document is of the
\* expected shape; and no call returned both an error and a Config.
C5_AllOrNothing ==
    \A i \in 1..Len(loads) :
        /\ (/\ ReadTheFile(loads[i])
            /\ yamlFile.valid
            /\ \E p \in DocPatterns(yamlFile.doc) : Invalid(p))
               => /\ loads[i].err.kind # "nil"
                  /\ loads[i].config = 0
                  /\ WellFormed(yamlFile) => loads[i].err.kind = "PatternError"
        /\ loads[i].err.kind # "nil" => loads[i].config = 0

\* C5's case: a call failed on a pattern after it had compiled a pattern of
\* an earlier slot into its Config object, and returned nil.
C5_Witness ==
    \E i \in 1..Len(loads) :
        /\ loads[i].err.kind = "PatternError"
        /\ loads[i].config = 0
        /\ Len(objects[loads[i].addr].S3.IncludeRule.NamesRE) > 0

\* C6: omissions are not errors. A GetConfig call that read a document all
\* of whose written patterns compile returned a Config and a nil error, and
\* every slot the document omits (by leaving out the category, the include
\* or exclude mapping, or the names_regex key) holds no pattern in it.
C6_OmittedIsEmpty ==
    \A i \in 1..Len(loads) :
        (/\ ReadTheFile(loads[i])
         /\ WellFormed(yamlFile)
         /\ \A p \in DocPatterns(yamlFile.doc) : ~Invalid(p))
            => /\ loads[i].err.kind = "nil"
               /\ loads[i].config # 0
               /\ \A s \in Slots :
                      ~Written(yamlFile.doc, s) =>
                          Len(deref(objects[loads[i].config], s.field)) = 0

\* C6's case: a call succeeded on a document that writes one slot of a
\* category, omits the other and omits the other category altogether.
C6_Witness ==
    \E i \in 1..Len(loads) :
        /\ loads[i].config # 0
        /\ DOMAIN yamlFile.doc = {"s3"}
        /\ DOMAIN yamlFile.doc.s3 = {"include"}
        /\ Len(objects[loads[i].config].S3.IncludeRule.NamesRE) > 0
        /\ Len(objects[loads[i].config].S3.ExcludeRule.NamesRE) = 0

\* C7: slot by slot, in order. In every Config a GetConfig call returned,
\* each slot holds one compiled pattern per string of the corresponding raw
\* list: the lengths agree and the i-th entry is the compilation of the i-th
\* string.
C7_SlotwiseCompiled ==
    \A i \in 1..Len(loads) :
        loads[i].config # 0 =>
            LET raw == Unmarshal(yamlFile).rawConfig
                cfg == objects[loads[i].config]
            IN  \A s \in Slots :
                    LET rawREs == deref(raw, s.field)
                        res == deref(cfg, s.field)
                    IN  /\ Len(res) = Len(rawREs)
                        /\ \A k \in 1..Len(rawREs) :
                               res[k] = Compile(rawREs[k]).re

\* C7's cases: a returned Config with two different patterns in one slot,
\* and one with patterns in slots of both categories.
C7_Witness ==
    \E i \in 1..Len(loads) :
        /\ loads[i].config # 0
        /\ \E s \in Slots :
               LET res == deref(objects[loads[i].config], s.field)
               IN  Len(res) = 2 /\ res[1] # res[2]

C7_WitnessTwoSlots ==
    \E i \in 1..Len(loads) :
        /\ loads[i].config # 0
        /\ Len(objects[loads[i].config].S3.ExcludeRule.NamesRE) = 1
        /\ Len(objects[loads[i].config].IAMUsers.IncludeRule.NamesRE) = 1

\* The decisions a Config gives: for every name and category, what
\* ShouldInclude returns on the category's lists.
Decisions(cfg) ==
    [n \in Names, category \in {"S3", "IAMUsers"} |->
        ShouldInclude(n, cfg[category].IncludeRule.NamesRE,
                      cfg[category].ExcludeRule.NamesRE)]

\* C8: two successful loads of the same file return two different Config
\* objects that give the same decision for every name and every category,
\* and each holds exactly as many patterns as the file writes: none of an
\* earlier load.
C8_IndependentLoads ==
    \A i, j \in 1..Len(loads) :
        (i < j /\ loads[i].config # 0 /\ loads[j].config # 0) =>
            /\ loads[i].config # loads[j].config
            /\ Decisions(objects[loads[i].config])
                   = Decisions(objects[loads[j].config])
            /\ \A s \in Slots :
                   Len(deref(objects[loads[j].config], s.field))
                       = Len(deref(Unmarshal(yamlFile).rawConfig, s.field))

\* C8's case: two calls returned a Config of a file that writes patterns.
C8_Witness ==
    /\ Len(loads) >= 2
    /\ loads[1].config # 0
    /\ loads[2].config # 0
    /\ Len(RawInOrder) > 0
    /\ \E n \in Names : ~Decisions(objects[loads[1].config])[n, "S3"]

\* C9: first error wins. A call that failed on a pattern was handed, in the
\* order S3 include, S3 exclude, IAMUsers include, IAMUsers exclude and list
\* order within each, exactly the patterns up to the first that does not
\* compile, and the error it returned is that pattern's.
C9_FirstInvalidWins ==
    \A i \in 1..Len(loads) :
        loads[i].err.kind = "PatternError" =>
            \E k \in 1..Len(RawInOrder) :
                /\ Invalid(RawInOrder[k])
                /\ \A m \in 1..(k - 1) : ~Invalid(RawInOrder[m])
                /\ loads[i].err = Compile(RawInOrder[k]).err
                /\ loads[i].compiled = SubSeq(RawInOrder, 1, k)

\* C9's cases: a call failed on a file with two different invalid patterns,
\* in one slot and in slots of different categories.
C9_Witness ==
    \E i \in 1..Len(loads) :
        /\ loads[i].err.kind = "PatternError"
        /\ Len(RawInOrder) = 2
        /\ Invalid(RawInOrder[1])
        /\ Invalid(RawInOrder[2])
        /\ RawInOrder[1] # RawInOrder[2]
        /\ Len(rawNamesRE(yamlFile.doc, "s3", "exclude")) = 1
        /\ Len(rawNamesRE(yamlFile.doc, "IAMUsers", "include")) = 1

C9_WitnessOneSlot ==
    \E i \in 1..Len(loads) :
        /\ loads[i].err.kind = "PatternError"
        /\ Len(rawNamesRE(yamlFile.doc, "IAMUsers", "exclude")) = 2
        /\ Invalid(RawInOrder[1])
        /\ Invalid(RawInOrder[2])
        /\ RawInOrder[1] # RawInOrder[2]

\* ------------------------------------- the Expression revision and the claims
\* The pattern texts of the file in the order the document writes them.
TextsInOrder ==
    LET listOf(category, rule) == rawNamesRE(yamlFile.doc, category, rule)
        ofCategory(category) ==
            listOf(category, keyOrder[category][1])
                \o listOf(category, keyOrder[category][2])
    IN  ofCategory(keyOrder.categories[1]) \o ofCategory(keyOrder.categories[2])

\* In the Expression revision the first error is the first in document order:
\* a call that failed on a pattern was handed exactly the texts up to the
\* first that does not compile, in the order the document writes them, and
\* returned that text's error.
Expression_DocumentOrderWins ==
    \A i \in 1..Len(loads) :
        loads[i].err.kind = "PatternError" =>
            \E k \in 1..Len(TextsInOrder) :
                /\ Invalid(TextsInOrder[k])
                /\ \A m \in 1..(k - 1) : ~Invalid(TextsInOrder[m])
                /\ loads[i].err = Compile(TextsInOrder[k]).err
                /\ loads[i].compiled = SubSeq(TextsInOrder, 1, k)

\* A call of the Expression revision failed on a document that writes an
\* invalid IAMUsers pattern before a different invalid s3 pattern.
Expression_Witness ==
    \E i \in 1..Len(loads) :
        /\ loads[i].err.kind = "PatternError"
        /\ keyOrder.categories = <<"IAMUsers", "s3">>
        /\ Len(TextsInOrder) = 2
        /\ Invalid(TextsInOrder[1])
        /\ Invalid(TextsInOrder[2])
        /\ TextsInOrder[1] # TextsInOrder[2]
        /\ Len(rawNamesRE(yamlFile.doc, "IAMUsers", "include")) = 1
        /\ Len(rawNamesRE(yamlFile.doc, "s3", "exclude")) = 1

\* The Expression revision agrees with C5 and C6 on what a load returns: a
\* call that read a document with a pattern that does not compile returned
\* an error and nil, and as long as no caller has rewritten an Expression, a
\* call that read a document of the expected shape whose patterns all compile
\* returned a Config in which every omitted slot is empty and every written
\* slot holds, in order, the Expression of each of its texts.
Expression_LoadsAlike ==
    \A i \in 1..Len(loads) :
        /\ loads[i].err.kind # "nil" => loads[i].config = 0
        /\ (ReadTheFile(loads[i]) /\ yamlFile.valid) =>
               IF \E p \in DocPatterns(yamlFile.doc) : Invalid(p)
               THEN loads[i].err.kind = "PatternError"
               ELSE IF yamlFile.mistyped # {}
               THEN loads[i].err.kind = "ParseError"
               ELSE /\ loads[i].config # 0
                    /\ textCalls = <<>> =>
                           \A s \in Slots :
                               LET texts == rawNamesRE(yamlFile.doc, s.key[1],
                                                       s.key[2])
                                   res == deref(objects[loads[i].config],
                                                s.field)
                               IN  /\ Len(res) = Len(texts)
                                   /\ \A k \in 1..Len(texts) :
                                          res[k] = [RE |-> Compile(texts[k]).re]

\* In the Expression revision a document with a mistyped key is decoded as
\* far as it goes: a call that read one returned nil and an error after
\* handing every pattern up to the first invalid one, or all of them, to
\* regexp.Compile, and left the compiled ones in its Config object.
Expression_MistypedDecoded ==
    \A i \in 1..Len(loads) :
        (ReadTheFile(loads[i]) /\ yamlFile.valid /\ yamlFile.mistyped # {}) =>
            /\ loads[i].config = 0
            /\ loads[i].err.kind = "ParseError" =>
                   /\ loads[i].compiled = TextsInOrder
                   /\ \A s \in Slots :
                          Len(deref(objects[loads[i].addr], s.field))
                              = Len(rawNamesRE(yamlFile.doc, s.key[1],
                                               s.key[2]))

\* Such a call: s3 is mistyped, IAMUsers writes a pattern that compiles.
Expression_MistypedWitness ==
    \E i \in 1..Len(loads) :
        /\ loads[i].err.kind = "ParseError"
        /\ yamlFile.mistyped = {"s3"}
        /\ Len(loads[i].compiled) = 1
        /\ Len(objects[loads[i].addr].IAMUsers.IncludeRule.NamesRE) = 1

\* In the Expression revision a returned Config is not immutable: a caller's
\* own UnmarshalText call rewrites an Expression of it. Whatever the calls,
\* every Expression of a returned Config is a compiled pattern, since a call
\* that fails leaves the Expression as it was.
Expression_AlwaysCompiled ==
    \A i \in 1..Len(loads) :
        loads[i].config # 0 =>
            \A s \in Slots :
                LET res == deref(objects[loads[i].config], s.field)
                IN  \A k \in 1..Len(res) :
                        \E p \in FilePatterns :
                            ~Invalid(p) /\ res[k] = [RE |-> Compile(p).re]

\* A caller's UnmarshalText call rewrote an Expression of a returned Config:
\* the Config no longer holds the file's pattern.
Expression_RewrittenWitness ==
    \E i \in 1..Len(loads) :
        /\ loads[i].config # 0
        /\ Len(textCalls) = 1
        /\ textCalls[1].err.kind = "nil"
        /\ Len(TextsInOrder) = 1
        /\ \E s \in Slots :
               LET res == deref(objects[loads[i].config], s.field)
               IN  Len(res) = 1 /\ res[1] # [RE |-> Compile(TextsInOrder[1]).re]

====
